---------------------------- MODULE Spec2Model ----------------------------
(***************************************************************************)
(* Ichimoku Cloud engine of technical_analyzer/src/main.rs.                *)
(*                                                                         *)
(* The engine keeps six running extrema, the parameters and a counter of   *)
(* processed candlesticks.  It has two entry points, initialize (a batch)  *)
(* and calculate (one candlestick).                                        *)
(*                                                                         *)
(* f64 values are integers counted in quarters of the 8-decimal rounding   *)
(* step, so that format!("{:.8}") is not the identity: it keeps only the   *)
(* multiples of Quantum.  The largest finite f64 is FMAX; above it lie the *)
(* two infinities, and NaN is a separate value.  Candlestick prices range  *)
(* over finite values and the two infinities; NaN only arises as the       *)
(* result of an addition.  num_processed is a usize; the 2^64 candlesticks *)
(* that would overflow it lie beyond MaxCount.                             *)
(***************************************************************************)
EXTENDS Integers, Sequences, FiniteSets, TLC

(* ---------------------------- bounds ---------------------------------- *)

\* largest long_period tried
MaxLong == 2

\* longest batch handed to initialize
MaxBatch == 3

\* num_processed is not driven beyond this value
MaxCount == 3

\* round_to_8_decimals is applied at most this many times in a row
MaxRounds == 2

(* ---------------------------- f64 ------------------------------------- *)

\* f64::MAX; f64::MIN is -FMAX
FMAX == 2000

\* number of representable values per 8-decimal step of format!("{:.8}")
Quantum == 4

PosInf == FMAX + 1

NegInf == 0 - PosInf

NaN == FMAX + 2

IsNaN(x) == x = NaN

IsFinite(x) == (0 - FMAX) <= x /\ x <= FMAX

Abs(x) == IF x < 0 THEN 0 - x ELSE x

\* a finite value so large that adding an ordinary price does not change it
Huge(x) == IsFinite(x) /\ 2 * Abs(x) >= FMAX

\* a min that was written as max
FMinTakesLarger(a, b) ==
    IF IsNaN(a) THEN b ELSE IF IsNaN(b) THEN a ELSE IF a < b THEN b ELSE a

\* f64::min: the smaller operand, the other one when an operand is NaN
FMin(a, b) ==
    IF IsNaN(a) THEN b ELSE IF IsNaN(b) THEN a ELSE IF a < b THEN a ELSE b

\* a max that was written as a plain assignment of the new high
FMaxTakesNew(a, b) == IF IsNaN(b) THEN a ELSE b

\* f64::max: the larger operand, the other one when an operand is NaN
FMax(a, b) ==
    IF IsNaN(a) THEN b ELSE IF IsNaN(b) THEN a ELSE IF a > b THEN a ELSE b

\* f64 addition: NaN propagates, inf + -inf is NaN, an ordinary value is
\* absorbed by a huge one, and a sum beyond FMAX overflows to an infinity
FAdd(a, b) ==
    IF IsNaN(a) \/ IsNaN(b) THEN NaN
    ELSE IF a = PosInf THEN (IF b = NegInf THEN NaN ELSE PosInf)
    ELSE IF a = NegInf THEN (IF b = PosInf THEN NaN ELSE NegInf)
    ELSE IF b = PosInf \/ b = NegInf THEN b
    ELSE IF Huge(a) /\ ~Huge(b) THEN a
    ELSE IF Huge(b) /\ ~Huge(a) THEN b
    ELSE IF a + b > FMAX THEN PosInf
    ELSE IF a + b < 0 - FMAX THEN NegInf
    ELSE a + b

\* f64 division by 2.0: exact, except that the smallest unit cannot be
\* halved and goes to the even neighbour
FHalf(x) ==
    IF IsNaN(x) \/ x = PosInf \/ x = NegInf THEN x
    ELSE IF x % 2 = 0 THEN x \div 2
    ELSE IF (x \div 2) % 2 = 0 THEN x \div 2 ELSE (x \div 2) + 1

\* (max + min) / 2.0
Midpoint(hi, lo) == FHalf(FAdd(hi, lo))

\* a rounding that always moves to the next multiple above
Round8AlwaysUp(x) ==
    IF ~IsFinite(x) THEN x ELSE ((x \div Quantum) + 1) * Quantum

\* round_to_8_decimals: print with exactly 8 fractional digits (nearest,
\* ties to the even digit) and parse the text back; "inf", "-inf" and "NaN"
\* parse back to themselves
Round8(x) ==
    IF ~IsFinite(x) THEN x
    ELSE LET q == x \div Quantum
             r == x % Quantum
         IN  IF 2 * r < Quantum THEN q * Quantum
             ELSE IF 2 * r > Quantum THEN (q + 1) * Quantum
             ELSE IF q % 2 = 0 THEN q * Quantum ELSE (q + 1) * Quantum

(* ---------------------------- data ------------------------------------ *)

\* CandlestickState
CandlestickState == {"Open", "Closed"}

\* lows a candlestick may carry; +inf is the low that leaves f64::MAX in
\* place
Lows == {400, 440, PosInf}

\* highs a candlestick may carry; -inf is the high that leaves f64::MIN in
\* place
Highs == {NegInf, 406, 440}

\* closing prices: one on the 8-decimal grid, one off it
Closes == {420, 421}

\* Candlestick, reduced to the fields the engine reads; the close, which
\* only chikou_span reads, is taken off the grid on the ordinary candlestick
Candlestick ==
    {c \in [low : Lows, high : Highs, close : Closes,
            state : CandlestickState] :
        c.close = 420 \/ (c.low = 400 /\ c.high = 440)}

\* the candlesticks batches are made of: an ordinary one, Open or Closed,
\* and a Closed one with high < low
BatchCandles ==
    {c \in Candlestick :
        /\ c.close = 420
        /\ \/ c.low = 400 /\ c.high = 440
           \/ c.low = 440 /\ c.high = 406 /\ c.state = "Closed"}

RECURSIVE SeqsUpTo(_, _)
SeqsUpTo(S, n) ==
    IF n = 0 THEN {<<>>}
    ELSE LET shorter == SeqsUpTo(S, n - 1)
         IN  shorter \cup {Append(s, c) : s \in {t \in shorter : Len(t) = n - 1}, c \in S}

Batches == SeqsUpTo(BatchCandles, MaxBatch)

\* IchimokuCloudParameters
\* short <= medium <= long where long_period allows it, and one set in
\* the opposite order
IchimokuCloudParameters ==
    {[short_period |-> 1, medium_period |-> 2, long_period |-> l] :
        l \in 0..MaxLong}
    \cup {[short_period |-> 3, medium_period |-> 2, long_period |-> 1]}

\* Option<IchimokuCloudResult>
None == <<>>

Some(r) == <<r>>

IsSome(o) == Len(o) = 1

(* ---------------------------- engine ---------------------------------- *)

\* a constructor that zeroes the extrema
newZeroed(params) ==
    [short_period_min  |-> 0,
     short_period_max  |-> 0,
     medium_period_min |-> 0,
     medium_period_max |-> 0,
     long_period_min   |-> 0,
     long_period_max   |-> 0,
     parameters        |-> params,
     num_processed     |-> 0]

\* IchimokuCloud::new
new(params) ==
    [short_period_min  |-> FMAX,
     short_period_max  |-> 0 - FMAX,
     medium_period_min |-> FMAX,
     medium_period_max |-> 0 - FMAX,
     long_period_min   |-> FMAX,
     long_period_max   |-> 0 - FMAX,
     parameters        |-> params,
     num_processed     |-> 0]

\* a fold that rounds the prices before it stores them
FoldExtremaRounds(e, candle) ==
    [e EXCEPT !.short_period_min  = FMin(@, Round8(candle.low)),
              !.short_period_max  = FMax(@, Round8(candle.high)),
              !.medium_period_min = FMin(@, Round8(candle.low)),
              !.medium_period_max = FMax(@, Round8(candle.high)),
              !.long_period_min   = FMin(@, Round8(candle.low)),
              !.long_period_max   = FMax(@, Round8(candle.high))]

\* the six min/max assignments shared by initialize and calculate
FoldExtrema(e, candle) ==
    [e EXCEPT !.short_period_min  = FMin(@, candle.low),
              !.short_period_max  = FMax(@, candle.high),
              !.medium_period_min = FMin(@, candle.low),
              !.medium_period_max = FMax(@, candle.high),
              !.long_period_min   = FMin(@, candle.low),
              !.long_period_max   = FMax(@, candle.high)]

\* a result whose chikou_span was left unrounded
IchimokuCloudResultRawClose(x, candle) ==
    LET tenkan_sen    == Midpoint(x.short_period_max, x.short_period_min)
        kijun_sen     == Midpoint(x.medium_period_max, x.medium_period_min)
        senkou_span_a == FHalf(FAdd(tenkan_sen, kijun_sen))
        senkou_span_b == Midpoint(x.long_period_max, x.long_period_min)
        chikou_span   == candle.close
    IN  [tenkan_sen    |-> Round8(tenkan_sen),
         kijun_sen     |-> Round8(kijun_sen),
         senkou_span_a |-> Round8(senkou_span_a),
         senkou_span_b |-> Round8(senkou_span_b),
         chikou_span   |-> chikou_span]

\* the five values, computed unrounded and rounded only when stored in the
\* IchimokuCloudResult
IchimokuCloudResult(x, candle) ==
    LET tenkan_sen    == Midpoint(x.short_period_max, x.short_period_min)
        kijun_sen     == Midpoint(x.medium_period_max, x.medium_period_min)
        senkou_span_a == FHalf(FAdd(tenkan_sen, kijun_sen))
        senkou_span_b == Midpoint(x.long_period_max, x.long_period_min)
        chikou_span   == candle.close
    IN  [tenkan_sen    |-> Round8(tenkan_sen),
         kijun_sen     |-> Round8(kijun_sen),
         senkou_span_a |-> Round8(senkou_span_a),
         senkou_span_b |-> Round8(senkou_span_b),
         chikou_span   |-> Round8(chikou_span)]

\* a threshold written with == instead of >=
ReadyExact(e) == e.num_processed = e.parameters.long_period

\* a threshold that looks at medium_period
ReadyMedium(e) == e.num_processed >= e.parameters.medium_period

\* a threshold written with > instead of >=
ReadyStrict(e) == e.num_processed > e.parameters.long_period

\* if self.num_processed >= self.parameters.long_period
Ready(e) == e.num_processed >= e.parameters.long_period

\* a commit that does not look at the candlestick's state
CommitsAlways(candle) == candle.state \in {"Open", "Closed"}

\* if let CandlestickState::Closed = candle.state
Commits(candle) == candle.state = "Closed"

\* an iteration that forgets self.num_processed += 1
InitializeStepUncounted(e, candle) ==
    LET folded == FoldExtrema(e, candle)
    IN  [engine |-> folded,
         result |-> IF Ready(folded)
                    THEN Some(IchimokuCloudResult(folded, candle))
                    ELSE None]

\* an iteration that, like calculate, commits Closed candlesticks only
InitializeStepClosedOnly(e, candle) ==
    LET folded == FoldExtrema(e, candle)
        after  == IF Commits(candle)
                  THEN [folded EXCEPT !.num_processed = @ + 1]
                  ELSE e
    IN  [engine |-> after,
         result |-> IF Ready(after)
                    THEN Some(IchimokuCloudResult(folded, candle))
                    ELSE None]

\* an iteration that computes the values before it folds the candlestick
InitializeStepStale(e, candle) ==
    LET counted == [e EXCEPT !.num_processed = @ + 1]
        folded  == FoldExtrema(counted, candle)
    IN  [engine |-> folded,
         result |-> IF Ready(folded)
                    THEN Some(IchimokuCloudResult(counted, candle))
                    ELSE None]

\* one iteration of the loop of initialize
InitializeStep(e, candle) ==
    LET counted == [e EXCEPT !.num_processed = @ + 1]
        folded  == FoldExtrema(counted, candle)
    IN  [engine |-> folded,
         result |-> IF Ready(folded)
                    THEN Some(IchimokuCloudResult(folded, candle))
                    ELSE None]

\* a loop that puts each pair in front of the earlier ones
RECURSIVE InitializeLoopPrepends(_, _, _)
InitializeLoopPrepends(e, candlesticks, results) ==
    IF candlesticks = <<>>
    THEN [engine |-> e, results |-> results]
    ELSE LET step == InitializeStep(e, Head(candlesticks))
         IN  InitializeLoopPrepends(step.engine, Tail(candlesticks),
                 <<<<Head(candlesticks), step.result>>>> \o results)

\* for candle in candlesticks.iter() { ... results.push(...) }: the engine
\* after the loop and the pairs pushed
RECURSIVE InitializeLoop(_, _, _)
InitializeLoop(e, candlesticks, results) ==
    IF candlesticks = <<>>
    THEN [engine |-> e, results |-> results]
    ELSE LET step == InitializeStep(e, Head(candlesticks))
         IN  InitializeLoop(step.engine, Tail(candlesticks),
                 Append(results, <<Head(candlesticks), step.result>>))

\* an initialize that starts over from a new engine
initializeResets(e, candlesticks) ==
    InitializeLoop(new(e.parameters), candlesticks, <<>>)

\* IchimokuCloud::initialize: results starts as Vec::new(); the engine
\* after the batch and the vector of (candlestick, result) pairs
initialize(e, candlesticks) == InitializeLoop(e, candlesticks, <<>>)

\* a calculate that folds into the persisted extrema directly
calculateInPlace(e, candle) ==
    LET temp  == FoldExtrema(e, candle)
        after == IF Commits(candle)
                 THEN [temp EXCEPT !.num_processed = @ + 1]
                 ELSE temp
    IN  [engine |-> after,
         result |-> IF Ready(after)
                    THEN Some(IchimokuCloudResult(temp, candle))
                    ELSE None]

\* a calculate that tests the threshold before it commits
calculateTestsFirst(e, candle) ==
    LET temp  == FoldExtrema(e, candle)
        after == IF Commits(candle)
                 THEN [temp EXCEPT !.num_processed = @ + 1]
                 ELSE e
    IN  [engine |-> after,
         result |-> IF Ready(e)
                    THEN Some(IchimokuCloudResult(temp, candle))
                    ELSE None]

\* a calculate that rejects a candlestick whose high is below its low
calculateValidates(e, candle) ==
    IF candle.high < candle.low
    THEN [engine |-> e, result |-> <<[error |-> "invalid candlestick"]>>]
    ELSE LET temp  == FoldExtrema(e, candle)
             after == IF Commits(candle)
                      THEN [temp EXCEPT !.num_processed = @ + 1]
                      ELSE e
         IN  [engine |-> after,
              result |-> IF Ready(after)
                         THEN Some(IchimokuCloudResult(temp, candle))
                         ELSE None]

\* IchimokuCloud::calculate: the engine after the call and the returned
\* Option
calculate(e, candle) ==
    LET temp  == FoldExtrema(e, candle)
        after == IF Commits(candle)
                 THEN [temp EXCEPT !.num_processed = @ + 1]
                 ELSE e
    IN  [engine |-> after,
         result |-> IF Ready(after)
                    THEN Some(IchimokuCloudResult(temp, candle))
                    ELSE None]

(* ---------------------------- state ----------------------------------- *)

VARIABLES
    ichimoku,       \* the IchimokuCloud object
    call,           \* the last call: its kind, arguments, return value and
                    \* the engine it was made on
    open_run,       \* distinct Open candlesticks given to calculate in the
                    \* run of Open calls that the last call belongs to or
                    \* closes (0, 1, or 2 for two and more)
    run_start,      \* the engine when that run began
    init_total,     \* candlesticks handed to initialize so far
    closed_total,   \* Closed candlesticks handed to calculate so far
    lowest_low,     \* smallest low of the Closed candlesticks processed
    highest_high,   \* largest high of the Closed candlesticks processed
    emitted_before  \* a call before the last one returned Some

vars ==
    <<ichimoku, call, open_run, run_start, init_total,
      closed_total, lowest_low, highest_high, emitted_before>>

\* the candlestick of a (candlestick, result) pair and its result
CandleOf(pair) == pair[1]

ResultOf(pair) == pair[2]

\* smallest low / largest high of the Closed candlesticks of a sequence,
\* starting from what was seen before (<<>> when nothing was)
RECURSIVE LowestLow(_, _)
LowestLow(seen, candlesticks) ==
    IF candlesticks = <<>> THEN seen
    ELSE LET c == Head(candlesticks)
             s == IF c.state # "Closed" THEN seen
                  ELSE IF seen = <<>> \/ c.low < seen[1] THEN <<c.low>>
                  ELSE seen
         IN  LowestLow(s, Tail(candlesticks))

RECURSIVE HighestHigh(_, _)
HighestHigh(seen, candlesticks) ==
    IF candlesticks = <<>> THEN seen
    ELSE LET c == Head(candlesticks)
             s == IF c.state # "Closed" THEN seen
                  ELSE IF seen = <<>> \/ c.high > seen[1] THEN <<c.high>>
                  ELSE seen
         IN  HighestHigh(s, Tail(candlesticks))

\* the last call returned Some, alone or in one of its pairs
Emitted ==
    \E i \in 1..Len(call.results) : IsSome(ResultOf(call.results[i]))

\* the last call was calculate on an Open candlestick
AfterOpen ==
    call.kind = "calculate" /\ call.candlesticks[1].state = "Open"

Init ==
    /\ \E params \in IchimokuCloudParameters : ichimoku = new(params)
    /\ call = [kind |-> "new", candlesticks |-> <<>>, results |-> <<>>,
               pre |-> ichimoku]
    /\ open_run = 0
    /\ run_start = ichimoku
    /\ init_total = 0
    /\ closed_total = 0
    /\ lowest_low = <<>>
    /\ highest_high = <<>>
    /\ emitted_before = FALSE

\* ichimoku.initialize(&candlesticks)
Initialize ==
    \E candlesticks \in Batches :
        /\ ichimoku.num_processed + Len(candlesticks) <= MaxCount
        /\ LET out == initialize(ichimoku, candlesticks)
           IN  /\ ichimoku' = out.engine
               /\ call' = [kind |-> "initialize",
                           candlesticks |-> candlesticks,
                           results |-> out.results,
                           pre |-> ichimoku]
               /\ run_start' = out.engine
        /\ open_run' = 0
        /\ init_total' = init_total + Len(candlesticks)
        /\ lowest_low' = LowestLow(lowest_low, candlesticks)
        /\ highest_high' = HighestHigh(highest_high, candlesticks)
        /\ emitted_before' = (emitted_before \/ Emitted)
        /\ UNCHANGED closed_total

\* ichimoku.calculate(&candle)
Calculate ==
    \E candle \in Candlestick :
        /\ candle.state = "Closed" => ichimoku.num_processed < MaxCount
        /\ LET out == calculate(ichimoku, candle)
           IN  /\ ichimoku' = out.engine
               /\ call' = [kind |-> "calculate",
                           candlesticks |-> <<candle>>,
                           results |-> <<<<candle, out.result>>>>,
                           pre |-> ichimoku]
               /\ run_start' = IF AfterOpen THEN run_start ELSE ichimoku
        /\ open_run' =
              IF candle.state = "Closed"
              THEN (IF AfterOpen THEN open_run ELSE 0)
              ELSE IF ~AfterOpen THEN 1
              ELSE IF candle # call.candlesticks[1] THEN 2
              ELSE open_run
        /\ closed_total' =
              IF candle.state = "Closed" THEN closed_total + 1
              ELSE closed_total
        /\ lowest_low' = LowestLow(lowest_low, <<candle>>)
        /\ highest_high' = HighestHigh(highest_high, <<candle>>)
        /\ emitted_before' = (emitted_before \/ Emitted)
        /\ UNCHANGED init_total

Next == Initialize \/ Calculate

Spec == Init /\ [][Next]_vars

(* ---------------------- round_to_8_decimals alone --------------------- *)

\* the finite f64 values
RoundInputs == (0 - FMAX)..FMAX

\* an f64 value to round; the engine stands by, new and unused
RoundInit ==
    /\ ichimoku = new([short_period |-> 1, medium_period |-> 2,
                       long_period |-> 0])
    /\ \E x \in RoundInputs :
          call = [kind |-> "value", input |-> x, value |-> x,
                  returned |-> x, times |-> 0]
    /\ open_run = 0
    /\ run_start = ichimoku
    /\ init_total = 0
    /\ closed_total = 0
    /\ lowest_low = <<>>
    /\ highest_high = <<>>
    /\ emitted_before = FALSE

\* round_to_8_decimals(value), value being what the previous application
\* returned
RoundTo8Decimals ==
    /\ call.times < MaxRounds
    /\ call' = [kind |-> "round_to_8_decimals",
                input |-> call.input,
                value |-> call.returned,
                returned |-> Round8(call.returned),
                times |-> call.times + 1]
    /\ UNCHANGED <<ichimoku, open_run, run_start, init_total, closed_total,
                   lowest_low, highest_high, emitted_before>>

RoundNext == RoundTo8Decimals

RoundSpec == RoundInit /\ [][RoundNext]_vars

TypeOK ==
    /\ ichimoku.parameters \in IchimokuCloudParameters
    /\ ichimoku.num_processed \in 0..MaxCount
    /\ call.kind \in {"new", "initialize", "calculate"}
    /\ Len(call.results) = Len(call.candlesticks)
    /\ open_run \in 0..2

(* ---------------------------- properties ------------------------------ *)

\* the six extrema and the counter of two engines agree
SameState(a, b) ==
    /\ a.short_period_min = b.short_period_min
    /\ a.short_period_max = b.short_period_max
    /\ a.medium_period_min = b.medium_period_min
    /\ a.medium_period_max = b.medium_period_max
    /\ a.long_period_min = b.long_period_min
    /\ a.long_period_max = b.long_period_max
    /\ a.num_processed = b.num_processed

\* the engine has never committed a candlestick
IsNew(e) ==
    /\ e.num_processed = 0
    /\ e.short_period_min = FMAX /\ e.short_period_max = 0 - FMAX
    /\ e.medium_period_min = FMAX /\ e.medium_period_max = 0 - FMAX
    /\ e.long_period_min = FMAX /\ e.long_period_max = 0 - FMAX

\* order on prices, the infinities included (no NaN among them)
Lesser(a, b) == IF a <= b THEN a ELSE b

Greater(a, b) == IF a >= b THEN a ELSE b

LastCandle == call.candlesticks[1]

LastResult == ResultOf(call.results[1])

ClosedCalculate == call.kind = "calculate" /\ LastCandle.state = "Closed"

OpenCalculate == call.kind = "calculate" /\ LastCandle.state = "Open"

\* C1: initialize over N candlesticks on a new engine returns None at the
\* first long_period - 1 positions and Some at every later position.
ThresholdProperty ==
    (call.kind = "initialize" /\ IsNew(call.pre)) =>
        \A i \in 1..Len(call.results) :
            IsSome(ResultOf(call.results[i]))
                <=> i >= call.pre.parameters.long_period

ThresholdWitness ==
    /\ call.kind = "initialize" /\ IsNew(call.pre)
    /\ call.pre.parameters.long_period >= 2
    /\ Len(call.results) > call.pre.parameters.long_period
    /\ ~IsSome(ResultOf(call.results[1]))
    /\ IsSome(ResultOf(call.results[Len(call.results)]))

\* C2: calculate on an Open candlestick leaves the six extrema and
\* num_processed as they were, whatever the candlestick's prices.
OpenLeavesState ==
    OpenCalculate => SameState(ichimoku, call.pre)

OpenLeavesStateWitness ==
    /\ OpenCalculate
    /\ call.pre.num_processed > 0
    /\ LastCandle.low < call.pre.long_period_min
    /\ LastCandle.high > call.pre.long_period_max
    /\ IsSome(LastResult)

\* C3: calculate on two different Open candlesticks and then on a Closed
\* one leaves the engine where calculate on the Closed one alone, made on
\* the engine the run started from, leaves it, and returns the same result.
OpenRunNotPersisted ==
    (ClosedCalculate /\ open_run = 2) =>
        LET alone == calculate(run_start, LastCandle)
        IN  /\ SameState(ichimoku, alone.engine)
            /\ LastResult = alone.result

OpenRunWitness ==
    /\ ClosedCalculate /\ open_run = 2
    /\ run_start.num_processed > 0
    /\ IsSome(LastResult)
    /\ ichimoku.long_period_min < run_start.long_period_min

\* C4: calculate on a Closed candlestick sets each minimum to the lesser of
\* its previous value and the low, each maximum to the greater of its
\* previous value and the high, and adds exactly 1 to num_processed.
ClosedCommits ==
    ClosedCalculate =>
        /\ ichimoku.short_period_min
              = Lesser(call.pre.short_period_min, LastCandle.low)
        /\ ichimoku.medium_period_min
              = Lesser(call.pre.medium_period_min, LastCandle.low)
        /\ ichimoku.long_period_min
              = Lesser(call.pre.long_period_min, LastCandle.low)
        /\ ichimoku.short_period_max
              = Greater(call.pre.short_period_max, LastCandle.high)
        /\ ichimoku.medium_period_max
              = Greater(call.pre.medium_period_max, LastCandle.high)
        /\ ichimoku.long_period_max
              = Greater(call.pre.long_period_max, LastCandle.high)
        /\ ichimoku.num_processed = call.pre.num_processed + 1

ClosedCommitsWitness ==
    /\ ClosedCalculate
    /\ call.pre.num_processed > 0
    /\ LastCandle.low < call.pre.short_period_min
    /\ LastCandle.high < call.pre.short_period_max
    /\ ichimoku.short_period_min = LastCandle.low
    /\ ichimoku.short_period_max = call.pre.short_period_max

\* C5: calculate returns Some exactly when num_processed, counted after the
\* commit this call makes when the candlestick is Closed, has reached
\* long_period.
UpdateThreshold ==
    call.kind = "calculate" =>
        LET counted == call.pre.num_processed
                         + (IF LastCandle.state = "Closed" THEN 1 ELSE 0)
        IN  IsSome(LastResult) <=> counted >= call.pre.parameters.long_period

UpdateThresholdWitness ==
    /\ ClosedCalculate
    /\ call.pre.num_processed + 1 = call.pre.parameters.long_period
    /\ IsSome(LastResult)

\* C6: every maximum is at least every high, and every minimum at most
\* every low, of the Closed candlesticks processed so far by initialize and
\* calculate; and no call lowers a maximum or raises a minimum.
MonotonicExtrema ==
    /\ lowest_low # <<>> =>
          /\ ichimoku.short_period_min <= lowest_low[1]
          /\ ichimoku.medium_period_min <= lowest_low[1]
          /\ ichimoku.long_period_min <= lowest_low[1]
    /\ highest_high # <<>> =>
          /\ ichimoku.short_period_max >= highest_high[1]
          /\ ichimoku.medium_period_max >= highest_high[1]
          /\ ichimoku.long_period_max >= highest_high[1]
    /\ ichimoku.short_period_min <= call.pre.short_period_min
    /\ ichimoku.medium_period_min <= call.pre.medium_period_min
    /\ ichimoku.long_period_min <= call.pre.long_period_min
    /\ ichimoku.short_period_max >= call.pre.short_period_max
    /\ ichimoku.medium_period_max >= call.pre.medium_period_max
    /\ ichimoku.long_period_max >= call.pre.long_period_max

MonotonicExtremaWitness ==
    /\ ClosedCalculate
    /\ init_total > 0
    /\ highest_high # <<>> /\ lowest_low # <<>>
    /\ LastCandle.high < highest_high[1]
    /\ LastCandle.low > lowest_low[1]
    /\ ichimoku.long_period_max = highest_high[1]
    /\ ichimoku.long_period_min = lowest_low[1]

\* C7: initialize and calculate advance one counter: num_processed is the
\* number of candlesticks given to initialize plus the number of Closed
\* candlesticks given to calculate, and calculate on a Closed candlestick
\* returns Some exactly when that sum, this candlestick included, has
\* reached long_period.
CounterContinuity ==
    /\ ichimoku.num_processed = init_total + closed_total
    /\ ClosedCalculate =>
          (IsSome(LastResult)
              <=> init_total + closed_total >= ichimoku.parameters.long_period)

CounterContinuityWitness ==
    /\ ClosedCalculate
    /\ init_total > 0
    /\ init_total < ichimoku.parameters.long_period
    /\ init_total + closed_total = ichimoku.parameters.long_period
    /\ IsSome(LastResult)

\* the lesser of start and the lows of the first i candlesticks
RECURSIVE LowOver(_, _, _)
LowOver(start, candlesticks, i) ==
    IF i = 0 THEN start
    ELSE Lesser(LowOver(start, candlesticks, i - 1), candlesticks[i].low)

\* the greater of start and the highs of the first i candlesticks
RECURSIVE HighOver(_, _, _)
HighOver(start, candlesticks, i) ==
    IF i = 0 THEN start
    ELSE Greater(HighOver(start, candlesticks, i - 1), candlesticks[i].high)

\* the midpoints of the three windows at the i-th candlestick of the last
\* call: the extrema the call started from with candlesticks 1..i folded in
TenkanAt(i) ==
    Midpoint(HighOver(call.pre.short_period_max, call.candlesticks, i),
             LowOver(call.pre.short_period_min, call.candlesticks, i))

KijunAt(i) ==
    Midpoint(HighOver(call.pre.medium_period_max, call.candlesticks, i),
             LowOver(call.pre.medium_period_min, call.candlesticks, i))

SpanBAt(i) ==
    Midpoint(HighOver(call.pre.long_period_max, call.candlesticks, i),
             LowOver(call.pre.long_period_min, call.candlesticks, i))

\* C8 as stated: every emitted result carries the three midpoints, the
\* mean of tenkan_sen and kijun_sen, and the candlestick's close.
ResultValuesUnrounded ==
    \A i \in 1..Len(call.results) :
        IsSome(ResultOf(call.results[i])) =>
            LET r == ResultOf(call.results[i])[1]
            IN  /\ r.tenkan_sen = TenkanAt(i)
                /\ r.kijun_sen = KijunAt(i)
                /\ r.senkou_span_b = SpanBAt(i)
                /\ r.senkou_span_a = FHalf(FAdd(r.tenkan_sen, r.kijun_sen))
                /\ r.chikou_span = call.candlesticks[i].close

\* C8: every emitted result carries the three midpoints and the
\* candlestick's close, each rounded to 8 decimals, and senkou_span_a is
\* the mean of tenkan_sen and kijun_sen.
ResultValues ==
    \A i \in 1..Len(call.results) :
        IsSome(ResultOf(call.results[i])) =>
            LET r == ResultOf(call.results[i])[1]
            IN  /\ r.tenkan_sen = Round8(TenkanAt(i))
                /\ r.kijun_sen = Round8(KijunAt(i))
                /\ r.senkou_span_b = Round8(SpanBAt(i))
                /\ r.senkou_span_a = FHalf(FAdd(r.tenkan_sen, r.kijun_sen))
                /\ r.chikou_span = Round8(call.candlesticks[i].close)

\* the candlestick of the concrete scenario: low 100, high 110, close 105
ScenarioCandle ==
    [low |-> 400, high |-> 440, close |-> 420, state |-> "Closed"]

\* long_period such candlesticks on a new engine: None up to the last one,
\* which carries 105 five times
ResultValuesWitness ==
    /\ call.kind = "initialize" /\ IsNew(call.pre)
    /\ call.pre.parameters.long_period >= 2
    /\ Len(call.results) = call.pre.parameters.long_period
    /\ \A i \in 1..Len(call.results) :
          /\ CandleOf(call.results[i]) = ScenarioCandle
          /\ i < Len(call.results) => ResultOf(call.results[i]) = None
    /\ ResultOf(call.results[Len(call.results)])
          = Some([tenkan_sen |-> 420, kijun_sen |-> 420,
                  senkou_span_a |-> 420, senkou_span_b |-> 420,
                  chikou_span |-> 420])

\* C9: initialize on an empty sequence returns an empty sequence and leaves
\* the six extrema and num_processed as they were; on a new engine they
\* stay at 0 and at the values new gave them.
EmptyInput ==
    (call.kind = "initialize" /\ call.candlesticks = <<>>) =>
        /\ call.results = <<>>
        /\ SameState(ichimoku, call.pre)
        /\ IsNew(call.pre) => IsNew(ichimoku)

EmptyInputWitness ==
    /\ call.kind = "initialize" /\ call.candlesticks = <<>>
    /\ call.pre.num_processed > 0
    /\ call.pre.long_period_min < call.pre.long_period_max

\* the first call on a new engine that commits its only candlestick
FirstFold ==
    /\ IsNew(call.pre)
    /\ Len(call.candlesticks) = 1
    /\ call.kind = "initialize" \/ ClosedCalculate

\* C10 as stated: new leaves every minimum at +infinity, every maximum at
\* -infinity and num_processed at 0, and the first candlestick folded in
\* sets every minimum to its low and every maximum to its high.
InitialStateInfinite ==
    /\ call.kind = "new" =>
          /\ ichimoku.short_period_min = PosInf
          /\ ichimoku.medium_period_min = PosInf
          /\ ichimoku.long_period_min = PosInf
          /\ ichimoku.short_period_max = NegInf
          /\ ichimoku.medium_period_max = NegInf
          /\ ichimoku.long_period_max = NegInf
          /\ ichimoku.num_processed = 0
    /\ FirstFold =>
          /\ ichimoku.short_period_min = LastCandle.low
          /\ ichimoku.medium_period_min = LastCandle.low
          /\ ichimoku.long_period_min = LastCandle.low
          /\ ichimoku.short_period_max = LastCandle.high
          /\ ichimoku.medium_period_max = LastCandle.high
          /\ ichimoku.long_period_max = LastCandle.high

\* C10: new leaves every minimum at f64::MAX, every maximum at f64::MIN and
\* num_processed at 0, and the first candlestick folded in sets every
\* minimum to its low when the low is at most f64::MAX and every maximum to
\* its high when the high is at least f64::MIN.
InitialState ==
    /\ call.kind = "new" =>
          /\ ichimoku.short_period_min = FMAX
          /\ ichimoku.medium_period_min = FMAX
          /\ ichimoku.long_period_min = FMAX
          /\ ichimoku.short_period_max = 0 - FMAX
          /\ ichimoku.medium_period_max = 0 - FMAX
          /\ ichimoku.long_period_max = 0 - FMAX
          /\ ichimoku.num_processed = 0
    /\ (FirstFold /\ LastCandle.low <= FMAX) =>
          /\ ichimoku.short_period_min = LastCandle.low
          /\ ichimoku.medium_period_min = LastCandle.low
          /\ ichimoku.long_period_min = LastCandle.low
    /\ (FirstFold /\ LastCandle.high >= 0 - FMAX) =>
          /\ ichimoku.short_period_max = LastCandle.high
          /\ ichimoku.medium_period_max = LastCandle.high
          /\ ichimoku.long_period_max = LastCandle.high

InitialStateWitness ==
    /\ FirstFold
    /\ ClosedCalculate
    /\ LastCandle.low = 440 /\ LastCandle.high = 406
    /\ ichimoku.long_period_min = 440 /\ ichimoku.long_period_max = 406

\* the f64 values: -inf, the finite ones, +inf and NaN, in that order
F64 == NegInf..NaN

ResultFields ==
    {"tenkan_sen", "kijun_sen", "senkou_span_a", "senkou_span_b",
     "chikou_span"}

\* None, or Some of five f64 values: the two outcomes that are not errors
IsOutcome(o) ==
    \/ o = None
    \/ /\ Len(o) = 1
       /\ DOMAIN o[1] = ResultFields
       /\ \A f \in ResultFields : o[1][f] \in F64

\* an engine whose extrema are numbers and whose counter is a count
IsEngine(e) ==
    /\ e.num_processed \in Nat
    /\ \A x \in {e.short_period_min, e.short_period_max,
                 e.medium_period_min, e.medium_period_max,
                 e.long_period_min, e.long_period_max} :
          x \in F64 /\ ~IsNaN(x)

\* what calculate hands back: an outcome and an engine
CalculateReturns(out) == IsOutcome(out.result) /\ IsEngine(out.engine)

\* C11: in every reachable state calculate returns None or a result for
\* every candlestick, initialize returns one such outcome per candlestick
\* for every batch, the empty one and candlesticks with high < low
\* included, and both leave an engine behind; no call ends in an error.
\* The last call stands for every call made within MaxCount; the last
\* conjunct is calculate on the Closed candlesticks that would go beyond it.
NoOperationFails ==
    /\ IsEngine(ichimoku)
    /\ Len(call.results) = Len(call.candlesticks)
    /\ \A i \in 1..Len(call.results) : IsOutcome(ResultOf(call.results[i]))
    /\ ichimoku.num_processed >= MaxCount =>
          \A candle \in {c \in Candlestick : c.state = "Closed"} :
              CalculateReturns(calculate(ichimoku, candle))

NoOperationFailsWitness ==
    /\ call.kind = "calculate"
    /\ LastCandle.high < LastCandle.low
    /\ ichimoku.parameters.short_period > ichimoku.parameters.long_period
    /\ IsSome(LastResult)
    /\ ichimoku.long_period_max < ichimoku.long_period_min

\* C12: initialize returns one pair per candlestick, in input order; the
\* i-th pair carries the i-th candlestick and the result that initialize
\* gives for it when the batch stops there, so it depends on candlesticks
\* 1..i only.
InitializeShape ==
    call.kind = "initialize" =>
        /\ Len(call.results) = Len(call.candlesticks)
        /\ \A i \in 1..Len(call.results) :
              /\ CandleOf(call.results[i]) = call.candlesticks[i]
              /\ ResultOf(call.results[i])
                    = ResultOf(initialize(call.pre,
                                   SubSeq(call.candlesticks, 1, i)).results[i])

InitializeShapeWitness ==
    /\ call.kind = "initialize"
    /\ Len(call.results) >= 2
    /\ call.candlesticks[1] # call.candlesticks[2]
    /\ IsSome(ResultOf(call.results[1]))
    /\ IsSome(ResultOf(call.results[2]))
    /\ ResultOf(call.results[1]) # ResultOf(call.results[2])

\* the candlesticks of the last call that were committed
Committed == IF OpenCalculate THEN 0 ELSE Len(call.candlesticks)

\* C13: senkou_span_a of every emitted result is round8 of the mean of
\* the unrounded tenkan_sen and kijun_sen, and the persisted extrema are
\* the unrounded lows and highs.
DerivedValueConsistency ==
    /\ \A i \in 1..Len(call.results) :
          IsSome(ResultOf(call.results[i])) =>
              ResultOf(call.results[i])[1].senkou_span_a
                  = Round8(FHalf(FAdd(TenkanAt(i), KijunAt(i))))
    /\ ichimoku.short_period_min
          = LowOver(call.pre.short_period_min, call.candlesticks, Committed)
    /\ ichimoku.medium_period_min
          = LowOver(call.pre.medium_period_min, call.candlesticks, Committed)
    /\ ichimoku.long_period_min
          = LowOver(call.pre.long_period_min, call.candlesticks, Committed)
    /\ ichimoku.short_period_max
          = HighOver(call.pre.short_period_max, call.candlesticks, Committed)
    /\ ichimoku.medium_period_max
          = HighOver(call.pre.medium_period_max, call.candlesticks, Committed)
    /\ ichimoku.long_period_max
          = HighOver(call.pre.long_period_max, call.candlesticks, Committed)

\* a result whose unrounded mean is off the 8-decimal grid, from an engine
\* that keeps a high that is off it too
DerivedValueWitness ==
    /\ ClosedCalculate
    /\ IsSome(LastResult)
    /\ LastCandle.high # Round8(LastCandle.high)
    /\ ichimoku.short_period_max = LastCandle.high
    /\ FHalf(FAdd(TenkanAt(1), KijunAt(1))) # LastResult[1].senkou_span_a

\* C15: initialize counts every candlestick of the batch, Open or Closed,
\* and folds its low and high into all six extrema.
InitializeCommitsAll ==
    call.kind = "initialize" =>
        LET n == Len(call.candlesticks)
        IN  /\ ichimoku.num_processed = call.pre.num_processed + n
            /\ ichimoku.short_period_min
                  = LowOver(call.pre.short_period_min, call.candlesticks, n)
            /\ ichimoku.medium_period_min
                  = LowOver(call.pre.medium_period_min, call.candlesticks, n)
            /\ ichimoku.long_period_min
                  = LowOver(call.pre.long_period_min, call.candlesticks, n)
            /\ ichimoku.short_period_max
                  = HighOver(call.pre.short_period_max, call.candlesticks, n)
            /\ ichimoku.medium_period_max
                  = HighOver(call.pre.medium_period_max, call.candlesticks, n)
            /\ ichimoku.long_period_max
                  = HighOver(call.pre.long_period_max, call.candlesticks, n)

InitializeCommitsAllWitness ==
    /\ call.kind = "initialize"
    /\ Len(call.candlesticks) >= 1
    /\ \A i \in 1..Len(call.candlesticks) :
          call.candlesticks[i].state = "Open"
    /\ call.pre.num_processed > 0
    /\ ichimoku.num_processed > call.pre.num_processed
    /\ ichimoku.long_period_min < call.pre.long_period_min
    /\ ichimoku.long_period_max > call.pre.long_period_max

\* calculate on each candlestick in turn: the engine at the end and the
\* (candlestick, result) pairs
RECURSIVE CalculateEach(_, _, _)
CalculateEach(e, candlesticks, results) ==
    IF candlesticks = <<>>
    THEN [engine |-> e, results |-> results]
    ELSE LET out == calculate(e, Head(candlesticks))
         IN  CalculateEach(out.engine, Tail(candlesticks),
                 Append(results, <<Head(candlesticks), out.result>>))

AllClosed(candlesticks) ==
    \A i \in 1..Len(candlesticks) : candlesticks[i].state = "Closed"

\* C16: initialize over Closed candlesticks returns the results and ends
\* in the state that calculate on each of them in order gives from the
\* same engine.
InitializeAsUpdates ==
    (call.kind = "initialize" /\ AllClosed(call.candlesticks)) =>
        LET each == CalculateEach(call.pre, call.candlesticks, <<>>)
        IN  /\ call.results = each.results
            /\ SameState(ichimoku, each.engine)

InitializeAsUpdatesWitness ==
    /\ call.kind = "initialize" /\ AllClosed(call.candlesticks)
    /\ Len(call.candlesticks) >= 2
    /\ call.pre.num_processed > 0
    /\ IsSome(ResultOf(call.results[Len(call.results)]))
    /\ ichimoku.long_period_min < call.pre.long_period_min

\* C14: round_to_8_decimals applied to a value it returned, for any finite
\* input, returns that value again.
RoundingIdempotence ==
    (call.kind = "round_to_8_decimals" /\ call.times >= 2) =>
        call.returned = call.value

\* an input off the 8-decimal grid, rounded and rounded again
RoundingIdempotenceWitness ==
    /\ call.kind = "round_to_8_decimals" /\ call.times = 2
    /\ call.input # call.value
    /\ call.returned = call.value

\* the engine the last call was made on, with other short and medium
\* periods
WithPeriods(short, medium) ==
    [call.pre EXCEPT !.parameters.short_period = short,
                     !.parameters.medium_period = medium]

\* the last call made again on engine e
Replay(e) ==
    IF call.kind = "initialize" THEN initialize(e, call.candlesticks)
    ELSE LET out == calculate(e, LastCandle)
         IN  [engine |-> out.engine,
              results |-> <<<<LastCandle, out.result>>>>]

\* Replay(e) gave what the last call gave
SameCall(out) ==
    out.results = call.results /\ SameState(out.engine, ichimoku)

\* C17: the three minima are always equal and so are the three maxima,
\* every emitted result has tenkan_sen = kijun_sen = senkou_span_a =
\* senkou_span_b, and no call's results or final state change when
\* short_period and medium_period are given other values.
WindowsIndistinguishable ==
    /\ ichimoku.short_period_min = ichimoku.medium_period_min
    /\ ichimoku.medium_period_min = ichimoku.long_period_min
    /\ ichimoku.short_period_max = ichimoku.medium_period_max
    /\ ichimoku.medium_period_max = ichimoku.long_period_max
    /\ \A i \in 1..Len(call.results) :
          IsSome(ResultOf(call.results[i])) =>
              LET r == ResultOf(call.results[i])[1]
              IN  /\ r.tenkan_sen = r.kijun_sen
                  /\ r.kijun_sen = r.senkou_span_a
                  /\ r.senkou_span_a = r.senkou_span_b
    /\ call.kind # "new" =>
          \A short \in {0, MaxLong + 1}, medium \in {0, MaxLong + 1} :
              SameCall(Replay(WithPeriods(short, medium)))

WindowsIndistinguishableWitness ==
    /\ ClosedCalculate
    /\ IsSome(LastResult)
    /\ ichimoku.parameters.short_period > ichimoku.parameters.medium_period
    /\ ichimoku.num_processed >= 2
    /\ ichimoku.num_processed < ichimoku.parameters.short_period
    /\ ichimoku.short_period_min < ichimoku.short_period_max
    /\ LastResult[1].tenkan_sen = LastResult[1].senkou_span_b

\* C18: no call lowers num_processed; once a call has returned Some, every
\* later calculate, on an Open or a Closed candlestick, returns Some and so
\* does every pair of a later initialize; within one batch every pair after
\* a Some is a Some.
EmissionPermanent ==
    /\ ichimoku.num_processed >= call.pre.num_processed
    /\ emitted_before =>
          \A i \in 1..Len(call.results) : IsSome(ResultOf(call.results[i]))
    /\ \A i \in 1..Len(call.results) :
          IsSome(ResultOf(call.results[i])) =>
              \A j \in i..Len(call.results) :
                  IsSome(ResultOf(call.results[j]))

EmissionPermanentWitness ==
    /\ emitted_before
    /\ OpenCalculate
    /\ IsSome(LastResult)
    /\ ichimoku.parameters.long_period >= 2
    /\ ichimoku.num_processed > ichimoku.parameters.long_period

=============================================================================
